---- MODULE Spec2Model ----
\* PhyloRank: rank decoration (phylorank/decorate.py) and rank outliers
\* (phylorank/outliers.py).
\*
\* Conventions of the model
\*   - a Python str is a sequence of one-character strings;
\*   - a float is an integer count of thousandths (0.304 is 304); the model
\*     only uses values the code compares, subtracts, halves or formats;
\*   - Python's None is NoneStr where a str is expected and NoneNum where a
\*     number is expected.
EXTENDS Integers, Sequences, FiniteSets, TLC

VARIABLES
    \* ---- Decorate.run -------------------------------------------------
    tree,               \* root.preorder(): the nodes, in preorder
    input_tree,         \* the tree as it was handed to the current run
    min_support,
    only_named_clades,
    min_length,
    thresholds,         \* d[rank designator] -> threshold
    correct,            \* defaultdict(int)
    incorrect,          \* defaultdict(int)
    pc,                 \* position in run: traverse, summary, write, done, error
    pos,                \* index in tree of the node the loop visits next
    rank_pos,           \* index in rank_prefixes of the summary line written next
    err,                \* the exception that ended the run, "" if none
    log,                \* the summary lines handed to logger.info
    output_tree,        \* what root.write(output_tree) wrote, one entry per write
    run,                \* 1 in the first run over the tree, 2 in the second
    \* ---- the rank classification on its own --------------------------
    cls_rel_dist,       \* a relative divergence
    cls_result,         \* the classification of cls_rel_dist, once computed
    \* ---- Outliers.run ------------------------------------------------
    taxa_for_dist_inference,    \* the taxa used to infer the distributions
    phyla,              \* the phylum lineages found in the tree, in preorder
    rel_dist_pool,      \* the tables rel_dist_to_named_clades can return
    rooting,            \* index in phyla of the phylum rooted on next
    phylum_rel_dists,   \* d[phylum] -> table of the tree rooted on it
    median_outlier,     \* d[phylum] -> what _median_outlier_file wrote
    median_summary,     \* what _median_summary_outlier_file wrote
    opc,                \* position in run: rooting, done, error (idle: unused)
    oerr,               \* the exception that ended the run, "" if none
    orun,               \* 1 in the first run, 2 in the second
    prev_run            \* tables and reports of the run before this one

dvars == <<tree, input_tree, min_support, only_named_clades, min_length,
           thresholds, correct, incorrect, pc, pos, rank_pos, err, log,
           output_tree, run>>
cvars == <<cls_rel_dist, cls_result>>
ovars == <<taxa_for_dist_inference, phyla, rel_dist_pool, rooting,
           phylum_rel_dists, median_outlier, median_summary, opc, oerr, orun,
           prev_run>>
vars == <<dvars, cvars, ovars>>

\* ---------------------------------------------------------------------
\* Python values
\* ---------------------------------------------------------------------

NoneStr == <<"None">>
NoneNum == 0 - 1

Digits == <<"0", "1", "2", "3", "4", "5", "6", "7", "8", "9">>

IsDigit(c) == \E k \in 1..10 : Digits[k] = c

DigitVal(c) == (CHOOSE k \in 1..10 : Digits[k] = c) - 1

\* str(n) for a natural number n
RECURSIVE NatStr(_)
NatStr(n) ==
    IF n < 10 THEN <<Digits[n + 1]>>
    ELSE NatStr(n \div 10) \o <<Digits[(n % 10) + 1]>>

\* float(s) for a str of decimal digits
RECURSIVE StrNat(_)
StrNat(s) ==
    IF Len(s) = 0 THEN 0
    ELSE 10 * StrNat(SubSeq(s, 1, Len(s) - 1)) + DigitVal(s[Len(s)])

\* s.find(c) + 1: the first index of c in s, 0 when c is not in s
IndexOf(s, c) ==
    IF \E k \in 1..Len(s) : s[k] = c
    THEN CHOOSE k \in 1..Len(s) : s[k] = c /\ \A m \in 1..(k - 1) : s[m] # c
    ELSE 0

\* s.rfind(c) + 1
LastIndexOf(s, c) ==
    IF \E k \in 1..Len(s) : s[k] = c
    THEN CHOOSE k \in 1..Len(s) : s[k] = c /\ \A m \in (k + 1)..Len(s) : s[m] # c
    ELSE 0

LowerChar(c) ==
    CASE c = "D" -> "d" [] c = "P" -> "p" [] c = "C" -> "c" [] c = "O" -> "o"
      [] c = "F" -> "f" [] c = "G" -> "g" [] c = "S" -> "s" [] c = "T" -> "t"
      [] c = "X" -> "x" [] OTHER -> c

\* s.lower()
lower(s) == [k \in 1..Len(s) |-> LowerChar(s[k])]

\* Fmt2 with the third decimal cut off instead of rounded
Fmt2Truncated(x) ==
    LET h == x \div 10
    IN  NatStr(h \div 100) \o <<".">> \o <<Digits[((h \div 10) % 10) + 1]>>
            \o <<Digits[(h % 10) + 1]>>

\* '%.2f' % x, for x >= 0 in thousandths. The last digit of x is never 5 in
\* the model, so the nearest hundredth is unique and no tie is rounded.
Fmt2(x) ==
    LET h == (x + 5) \div 10
    IN  NatStr(h \div 100) \o <<".">> \o <<Digits[((h \div 10) % 10) + 1]>>
            \o <<Digits[(h % 10) + 1]>>

\* defaultdict(int): the keys set so far; a key not set reads 0
Get(d, k) == IF k \in DOMAIN d THEN d[k] ELSE 0

Inc(d, k) == [x \in (DOMAIN d) \cup {k} |-> IF x = k THEN Get(d, k) + 1 ELSE d[x]]

EmptyDict == [x \in {} |-> 0]

\* ---------------------------------------------------------------------
\* Decorate.__init__
\* ---------------------------------------------------------------------

rank_prefixes ==
    << <<"D", "_", "_">>, <<"P", "_", "_">>, <<"C", "_", "_">>,
       <<"O", "_", "_">>, <<"F", "_", "_">>, <<"G", "_", "_">>,
       <<"S", "_", "_">>, <<"S", "T", "_", "_">> >>

rank_designators == <<"d", "p", "c", "o", "f", "g", "s", "st">>

highly_basal_designator == <<"X", "_", "_">>

\* ---------------------------------------------------------------------
\* phylorank.newick.parse_label, as Decorate.run reads its result:
\* (support, taxon_name). A label is '<support>', '<taxon>' or
\* '<support>:<taxon>', optionally followed by '|<auxiliary information>'.
\* ---------------------------------------------------------------------

parse_label(label) ==
    IF label = NoneStr THEN [support |-> NoneNum, taxon_name |-> NoneStr]
    ELSE
        LET bar  == IndexOf(label, "|")
            head == IF bar = 0 THEN label ELSE SubSeq(label, 1, bar - 1)
            col  == IndexOf(head, ":")
        IN  IF col # 0
            THEN [support    |-> StrNat(SubSeq(head, 1, col - 1)),
                  taxon_name |-> SubSeq(head, col + 1, Len(head))]
            ELSE IF Len(head) > 0 /\ \A k \in 1..Len(head) : IsDigit(head[k])
            THEN [support |-> StrNat(head), taxon_name |-> NoneStr]
            ELSE IF Len(head) > 0
            THEN [support |-> NoneNum, taxon_name |-> head]
            ELSE [support |-> NoneNum, taxon_name |-> NoneStr]

\* ---------------------------------------------------------------------
\* Decorate.run: the classification of one relative divergence
\* ---------------------------------------------------------------------

\* RankLoop with the upper bound of an interval excluded
RECURSIVE RankLoopOpen(_, _, _)
RankLoopOpen(th, x, i) ==
    IF i >= Cardinality(DOMAIN th) - 1
    THEN [err |-> "", rank |-> NoneStr]
    ELSE IF rank_designators[i + 1] \notin DOMAIN th
            \/ rank_designators[i + 2] \notin DOMAIN th
    THEN [err |-> "KeyError", rank |-> NoneStr]
    ELSE
        LET parent_threshold == th[rank_designators[i + 1]]
            child_threshold  == th[rank_designators[i + 2]]
        IN  IF x > parent_threshold /\ x < child_threshold
            THEN [err |-> "", rank |-> rank_prefixes[i + 2]]
            ELSE RankLoopOpen(th, x, i + 1)

\* the loop over consecutive rank pairs, from index i (0-based, as xrange)
RECURSIVE RankLoop(_, _, _)
RankLoop(th, x, i) ==
    IF i >= Cardinality(DOMAIN th) - 1
    THEN [err |-> "", rank |-> NoneStr]
    ELSE IF rank_designators[i + 1] \notin DOMAIN th
            \/ rank_designators[i + 2] \notin DOMAIN th
    THEN [err |-> "KeyError", rank |-> NoneStr]
    ELSE
        LET parent_threshold == th[rank_designators[i + 1]]
            child_threshold  == th[rank_designators[i + 2]]
        IN  IF x > parent_threshold /\ x <= child_threshold
            THEN [err |-> "", rank |-> rank_prefixes[i + 2]]
            ELSE RankLoop(th, x, i + 1)

\* predicted_rank for a node of relative divergence x, or the KeyError of
\* a threshold lookup
PredictRank(th, x) ==
    IF "g" \notin DOMAIN th THEN [err |-> "KeyError", rank |-> NoneStr]
    ELSE IF x > th["g"] THEN [err |-> "", rank |-> rank_prefixes[7]]
    ELSE IF "d" \notin DOMAIN th THEN [err |-> "KeyError", rank |-> NoneStr]
    ELSE IF x <= th["d"] THEN [err |-> "", rank |-> highly_basal_designator]
    ELSE RankLoop(th, x, 0)

\* ---------------------------------------------------------------------
\* Decorate.run: the body of the loop over root.preorder(), for node n
\* ---------------------------------------------------------------------

\* taxon_name.split(';')[-1][0:3]
NamedRank(taxon_name) ==
    LET last == SubSeq(taxon_name, LastIndexOf(taxon_name, ";") + 1, Len(taxon_name))
    IN  SubSeq(last, 1, IF Len(last) < 3 THEN Len(last) ELSE 3)

\* '|' + predicted_rank + '[%.2f]' % n.rel_dist
Marker(predicted_rank, rel_dist) ==
    <<"|">> \o predicted_rank \o <<"[">> \o Fmt2(rel_dist) \o <<"]">>

\* the node is passed over by one of the four 'continue' statements
Skipped(n, minSupport, onlyNamed, minLength) ==
    LET p == parse_label(n.name)
    IN  \/ n.tip
        \/ n.length < minLength
        \/ (p.support # NoneNum /\ p.support # 0 /\ p.support < minSupport)
        \/ (onlyNamed /\ (p.taxon_name = NoneStr \/ p.taxon_name = <<>>))

\* what one iteration leaves behind: the node's name, the two counters and
\* the exception raised, "" when the iteration ends normally
VisitNode(n, th, minSupport, onlyNamed, minLength, cor, inc) ==
    LET p    == parse_label(n.name)
        same == [name |-> n.name, correct |-> cor, incorrect |-> inc, err |-> ""]
    IN  IF Skipped(n, minSupport, onlyNamed, minLength) THEN same
        ELSE
          LET pr == PredictRank(th, n.rel_dist)
          IN  IF pr.err # "" THEN [same EXCEPT !.err = pr.err]
              ELSE IF n.name = NoneStr \/ pr.rank = NoneStr
              THEN [same EXCEPT !.err = "TypeError"]
              ELSE
                LET named == [same EXCEPT !.name = n.name \o Marker(pr.rank, n.rel_dist)]
                IN  IF pr.rank = highly_basal_designator THEN named
                    ELSE IF p.taxon_name = NoneStr
                    THEN [named EXCEPT !.err = "AttributeError"]
                    ELSE
                      LET named_rank == NamedRank(p.taxon_name)
                      IN  IF named_rank = lower(pr.rank)
                          THEN [named EXCEPT !.correct = Inc(cor, named_rank)]
                          ELSE [named EXCEPT !.incorrect = Inc(inc, named_rank)]

\* one iteration of 'for n in root.preorder()'
Visit ==
    /\ pc = "traverse"
    /\ pos <= Len(tree)
    /\ LET r == VisitNode(tree[pos], thresholds, min_support, only_named_clades,
                          min_length, correct, incorrect)
       IN  /\ tree' = [tree EXCEPT ![pos].name = r.name]
           /\ correct' = r.correct
           /\ incorrect' = r.incorrect
           /\ err' = r.err
           /\ pc' = IF r.err # "" THEN "error"
                    ELSE IF pos = Len(tree) THEN "summary"
                    ELSE "traverse"
           /\ pos' = IF r.err # "" THEN pos ELSE pos + 1
    /\ UNCHANGED <<input_tree, min_support, only_named_clades, min_length,
                   thresholds, rank_pos, log, output_tree, run, cvars, ovars>>

\* ---------------------------------------------------------------------
\* Decorate.run: the accuracy summary and the writing of the tree
\* ---------------------------------------------------------------------

FirstSummaryRank == 2
LastSummaryRank == 7

\* the line logged for one rank, or the ZeroDivisionError of its percentage
SummaryLine(rank_prefix, cor, inc) ==
    LET correct_taxa   == Get(cor, lower(rank_prefix))
        incorrect_taxa == Get(inc, lower(rank_prefix))
        total_taxa     == correct_taxa + incorrect_taxa
    IN  IF total_taxa = 0
        THEN [err |-> "ZeroDivisionError", line |-> <<>>]
        ELSE [err  |-> "",
              line |-> <<rank_prefix, NatStr(correct_taxa), NatStr(total_taxa),
                         Fmt2((correct_taxa * 100000) \div total_taxa)>>]

\* Summarise with the tree written when the percentage fails, as a 'finally'
\* around the summary would do
SummariseWritingOnError ==
    /\ pc = "summary"
    /\ LET r == SummaryLine(rank_prefixes[rank_pos], correct, incorrect)
       IN  IF r.err # ""
           THEN /\ err' = r.err
                /\ pc' = "error"
                /\ output_tree' = Append(output_tree, tree)
                /\ UNCHANGED <<log, rank_pos>>
           ELSE /\ log' = Append(log, r.line)
                /\ rank_pos' = rank_pos + 1
                /\ pc' = IF rank_pos = LastSummaryRank THEN "write" ELSE "summary"
                /\ UNCHANGED <<err, output_tree>>
    /\ UNCHANGED <<tree, input_tree, min_support, only_named_clades, min_length,
                   thresholds, correct, incorrect, pos, run, cvars, ovars>>

\* one iteration of 'for rank_prefix in self.rank_prefixes[1:7]'
Summarise ==
    /\ pc = "summary"
    /\ LET r == SummaryLine(rank_prefixes[rank_pos], correct, incorrect)
       IN  IF r.err # ""
           THEN /\ err' = r.err
                /\ pc' = "error"
                /\ UNCHANGED <<log, rank_pos>>
           ELSE /\ log' = Append(log, r.line)
                /\ rank_pos' = rank_pos + 1
                /\ pc' = IF rank_pos = LastSummaryRank THEN "write" ELSE "summary"
                /\ UNCHANGED err
    /\ UNCHANGED <<tree, input_tree, min_support, only_named_clades, min_length,
                   thresholds, correct, incorrect, pos, output_tree, run, cvars, ovars>>

\* root.write(output_tree)
WriteTree ==
    /\ pc = "write"
    /\ output_tree' = Append(output_tree, tree)
    /\ pc' = "done"
    /\ UNCHANGED <<tree, input_tree, min_support, only_named_clades, min_length,
                   thresholds, correct, incorrect, pos, rank_pos, err, log, run,
                   cvars, ovars>>

\* Decorate.run is called again, with the same arguments, on the tree the
\* finished run has decorated
MaxRuns == 2

RunAgain ==
    /\ pc = "done"
    /\ run < MaxRuns
    /\ run' = run + 1
    /\ input_tree' = tree
    /\ correct' = EmptyDict
    /\ incorrect' = EmptyDict
    /\ pc' = "traverse"
    /\ pos' = 1
    /\ rank_pos' = FirstSummaryRank
    /\ err' = ""
    /\ log' = <<>>
    /\ output_tree' = <<>>
    /\ UNCHANGED <<tree, min_support, only_named_clades, min_length, thresholds,
                   cvars, ovars>>

\* ---------------------------------------------------------------------
\* The inputs of Decorate.run
\* ---------------------------------------------------------------------

Node(tip, length, name, rel_dist) ==
    [tip |-> tip, length |-> length, name |-> name, rel_dist |-> rel_dist]

\* node labels, as the Newick reader leaves them in n.name
Name_A      == <<"A">>
Name_95     == <<"9", "5">>
Name_0_g    == <<"0", ":", "g", "_", "_", "A">>
Name_50_g   == <<"5", "0", ":", "g", "_", "_", "A">>
Name_95_g   == <<"9", "5", ":", "g", "_", "_", "A">>
Name_95_dp  == <<"9", "5", ":", "d", "_", "_", "B", ";", "p", "_", "_", "A">>
Name_g      == <<"g", "_", "_", "A">>
Name_c      == <<"c", "_", "_", "C">>
Name_o      == <<"9", "5", ":", "o", "_", "_", "O">>
Name_f      == <<"f", "_", "_", "F">>
Name_s      == <<"s", "_", "_", "S">>

TipNodes == {Node(TRUE, 2, Name_A, 1000)}

InternalNodes ==
    { Node(FALSE, 0, Name_95_g, 800),    \* a branch shorter than min_length
      Node(FALSE, 2, NoneStr, 50),       \* no label at all
      Node(FALSE, 2, Name_95, 400),      \* a support value and no taxon
      Node(FALSE, 2, Name_95, 50),
      Node(FALSE, 2, Name_0_g, 800),     \* a support value of 0
      Node(FALSE, 2, Name_50_g, 800),
      Node(FALSE, 2, Name_95_dp, 304),
      Node(FALSE, 2, Name_95_dp, 250),
      Node(FALSE, 2, Name_g, 846),
      Node(FALSE, 2, Name_95_g, 900) }

Nodes == TipNodes \cup InternalNodes

\* the longest preorder sequence of the trees drawn below
MaxNodes == 3

\* a preorder sequence starts at an internal root and ends at a tip
SmallTrees ==
    UNION { { t \in [1..n -> Nodes] : ~t[1].tip /\ t[n].tip } : n \in 2..MaxNodes }

\* a tree with a named clade of every rank from phylum to species
FullTree ==
    << Node(FALSE, 2, Name_95_dp, 250), Node(FALSE, 2, Name_c, 400),
       Node(FALSE, 2, Name_o, 550), Node(FALSE, 2, Name_f, 650),
       Node(FALSE, 2, Name_g, 846), Node(FALSE, 2, Name_s, 900),
       Node(TRUE, 2, Name_A, 1000) >>

Trees == SmallTrees \cup {FullTree}

RequiredKeys == {"d", "p", "c", "o", "f", "g"}

Table(d, p, c, o, f, g) ==
    ("d" :> d) @@ ("p" :> p) @@ ("c" :> c) @@ ("o" :> o) @@ ("f" :> f) @@ ("g" :> g)

Without(th, key) == [k \in (DOMAIN th) \ {key} |-> th[k]]

ThresholdTables ==
    { Table(100, 300, 500, 600, 700, 850),
      Without(Table(100, 300, 500, 600, 700, 850), "d"),
      Without(Table(100, 300, 500, 600, 700, 850), "f"),
      Table(100, 500, 300, 600, 700, 850) }

MinSupports == {0, 70}

MinLengths == {1}

Unset == [err |-> "unset", rank |-> NoneStr]

\* Outliers.run is not running
OutliersIdle ==
    /\ taxa_for_dist_inference = {}
    /\ phyla = <<>>
    /\ rel_dist_pool = {}
    /\ rooting = 1
    /\ phylum_rel_dists = EmptyDict
    /\ median_outlier = EmptyDict
    /\ median_summary = EmptyDict
    /\ opc = "idle"
    /\ oerr = ""
    /\ orun = 1
    /\ prev_run = EmptyDict

Init ==
    /\ tree \in Trees
    /\ input_tree = tree
    /\ min_support \in MinSupports
    /\ only_named_clades \in BOOLEAN
    /\ min_length \in MinLengths
    /\ thresholds \in ThresholdTables
    /\ correct = EmptyDict
    /\ incorrect = EmptyDict
    /\ pc = "traverse"
    /\ pos = 1
    /\ rank_pos = FirstSummaryRank
    /\ err = ""
    /\ log = <<>>
    /\ output_tree = <<>>
    /\ run = 1
    /\ cls_rel_dist = 0
    /\ cls_result = Unset
    /\ OutliersIdle

Next == Visit \/ Summarise \/ WriteTree \/ RunAgain

Spec == Init /\ [][Next]_vars

\* ---------------------------------------------------------------------
\* The rank classification on its own: every table of six strictly
\* increasing thresholds, every relative divergence around them
\* ---------------------------------------------------------------------

\* thresholds are drawn from 0..MaxThreshold
MaxThreshold == 7

Monotonic(th) ==
    \A a, b \in 1..6 :
        a < b => th[rank_designators[a]] < th[rank_designators[b]]

IncreasingTables == { th \in [RequiredKeys -> 0..MaxThreshold] : Monotonic(th) }

InitClassify ==
    /\ thresholds \in IncreasingTables
    /\ cls_rel_dist \in (0 - 1)..(MaxThreshold + 1)
    /\ cls_result = Unset
    /\ pc = "classify"
    /\ tree = <<>>
    /\ input_tree = <<>>
    /\ min_support = 0
    /\ only_named_clades = FALSE
    /\ min_length = 0
    /\ correct = EmptyDict
    /\ incorrect = EmptyDict
    /\ pos = 1
    /\ rank_pos = FirstSummaryRank
    /\ err = ""
    /\ log = <<>>
    /\ output_tree = <<>>
    /\ run = 1
    /\ OutliersIdle

\* lines 95-106 of Decorate.run, applied to cls_rel_dist
Classify ==
    /\ pc = "classify"
    /\ cls_result' = PredictRank(thresholds, cls_rel_dist)
    /\ pc' = "classified"
    /\ UNCHANGED <<tree, input_tree, min_support, only_named_clades, min_length,
                   thresholds, correct, incorrect, pos, rank_pos, err, log,
                   output_tree, run, cls_rel_dist, ovars>>

NextClassify == Classify

SpecClassify == InitClassify /\ [][NextClassify]_vars

\* =====================================================================
\* Outliers (phylorank/outliers.py)
\* =====================================================================

\* ---------------------------------------------------------------------
\* numpy on Python floats. NaN is numpy's nan: every comparison with it is
\* false and every sum, difference and median over it is nan.
\* ---------------------------------------------------------------------

NaN == 0 - 1000000

fsub(a, b) == IF a = NaN \/ b = NaN THEN NaN ELSE a - b

flt(a, b) == a # NaN /\ b # NaN /\ a < b

fgt(a, b) == a # NaN /\ b # NaN /\ a > b

\* abs, np_abs
fabs(a) == IF a = NaN THEN NaN ELSE IF a < 0 THEN 0 - a ELSE a

HasNaN(s) == \E k \in 1..Len(s) : s[k] = NaN

Insert(x, s) ==
    LET k == Cardinality({i \in 1..Len(s) : s[i] <= x})
    IN  SubSeq(s, 1, k) \o <<x>> \o SubSeq(s, k + 1, Len(s))

RECURSIVE Sorted(_)
Sorted(s) == IF s = <<>> THEN <<>> ELSE Insert(Head(s), Sorted(Tail(s)))

RECURSIVE SumSeq(_)
SumSeq(s) == IF s = <<>> THEN 0 ELSE Head(s) + SumSeq(Tail(s))

\* np_median with the upper of the two middle values in place of their mean
np_median_upper(s) ==
    IF Len(s) = 0 \/ HasNaN(s) THEN NaN
    ELSE Sorted(s)[(Len(s) \div 2) + 1]

\* np_median of a list: nan for an empty list; the values are such that the
\* mean of the two middle ones is a whole number of thousandths
np_median(s) ==
    IF Len(s) = 0 \/ HasNaN(s) THEN NaN
    ELSE LET t == Sorted(s)
             n == Len(s)
         IN  IF n % 2 = 1 THEN t[(n + 1) \div 2]
             ELSE (t[n \div 2] + t[(n \div 2) + 1]) \div 2

\* np_mean of a list
np_mean(s) ==
    IF Len(s) = 0 \/ HasNaN(s) THEN NaN ELSE SumSeq(s) \div Len(s)

\* the values d[k], k in keys, as a list in the dict's iteration order
RECURSIVE ValuesOf(_, _)
ValuesOf(d, keys) ==
    IF keys = {} THEN <<>>
    ELSE LET k == CHOOSE x \in keys : TRUE
         IN  <<d[k]>> \o ValuesOf(d, keys \ {k})

\* d.pop(key, None)
Pop(d, key) == [k \in (DOMAIN d) \ {key} |-> d[k]]

\* d[key] = value
Put(d, key, value) ==
    [k \in (DOMAIN d) \cup {key} |-> IF k = key THEN value ELSE d[k]]

\* s.replace(pat, ''), for a pattern of three characters
RECURSIVE Remove3(_, _)
Remove3(s, pat) ==
    IF Len(s) = 0 THEN <<>>
    ELSE IF Len(s) >= 3 /\ SubSeq(s, 1, 3) = pat
    THEN Remove3(SubSeq(s, 4, Len(s)), pat)
    ELSE <<Head(s)>> \o Remove3(Tail(s), pat)

\* sep.join(parts)
RECURSIVE Join(_, _)
Join(parts, sep) ==
    IF Len(parts) = 0 THEN <<>>
    ELSE IF Len(parts) = 1 THEN parts[1]
    ELSE parts[1] \o sep \o Join(Tail(parts), sep)

\* the permutations of a finite set, as sequences
Perms(S) ==
    { q \in [1..Cardinality(S) -> S] : \A a, b \in 1..Cardinality(S) : a # b => q[a] # q[b] }

\* ---------------------------------------------------------------------
\* biolib.taxonomy.Taxonomy, for the taxonomy of the input tree
\* ---------------------------------------------------------------------

\* Taxonomy.rank_labels, indexed from 0
rank_labels == <<"domain", "phylum", "class", "order", "family", "genus", "species">>

RankLabel(rank) == rank_labels[rank + 1]

PhylumRank == 1
ClassRank == 2

Taxon_pA == <<"p", "_", "_", "A">>
Taxon_pB == <<"p", "_", "_", "B">>
Taxon_pC == <<"p", "_", "_", "C">>
Taxon_cX == <<"c", "_", "_", "X">>
Taxon_cZ == <<"c", "_", "_", "Z">>
Taxon_cW == <<"c", "_", "_", "W">>
Taxon_cV == <<"c", "_", "_", "V">>

PhylumTaxa == {Taxon_pA, Taxon_pB, Taxon_pC}

\* the classes of the tree are the first MaxClasses of ClassList
MaxClasses == 2

ClassList == <<Taxon_cX, Taxon_cZ, Taxon_cW, Taxon_cV>>

ClassParent == <<Taxon_pA, Taxon_pC, Taxon_pB, Taxon_pC>>

ClassTaxa == {ClassList[k] : k \in 1..(IF MaxClasses < 4 THEN MaxClasses ELSE 4)}

AllTaxa == PhylumTaxa \cup ClassTaxa

\* Taxonomy().children(p, taxonomy): the taxa below p
TaxonomyChildren(p) ==
    {ClassList[k] : k \in {j \in 1..4 : ClassList[j] \in ClassTaxa /\ ClassParent[j] = p}}

\* Taxonomy().parents(taxonomy)[taxon]: the taxa above taxon
gtdb_parent_ranks(taxon) ==
    IF \E k \in 1..4 : ClassList[k] = taxon
    THEN <<ClassParent[CHOOSE k \in 1..4 : ClassList[k] = taxon]>>
    ELSE <<>>

\* ---------------------------------------------------------------------
\* The classification of a delta (lines 202-210 and 378-386)
\* ---------------------------------------------------------------------

\* Classification with the bounds -0.2 and 0.2 included in the outer classes
ClassificationInclusive(delta) ==
    IF delta # NaN /\ delta <= 0 - 200 THEN "very overclassified"
    ELSE IF flt(delta, 0 - 100) THEN "overclassified"
    ELSE IF delta # NaN /\ delta >= 200 THEN "very underclassified"
    ELSE IF fgt(delta, 100) THEN "underclassified"
    ELSE "OK"

Classification(delta) ==
    IF flt(delta, 0 - 200) THEN "very overclassified"
    ELSE IF flt(delta, 0 - 100) THEN "overclassified"
    ELSE IF fgt(delta, 200) THEN "very underclassified"
    ELSE IF fgt(delta, 100) THEN "underclassified"
    ELSE "OK"

\* closest_rank_dist = 1e10: above every distance between two divergences
ClosestRankDist0 == 2000000000

\* the loop 'for test_rank, test_median in median.iteritems()', over the
\* ranks not yet tested; a dict with the keys 0..6 is iterated in key order.
\* "" stands for a closest_rank that was never assigned.
RECURSIVE ClosestRank(_, _, _, _, _)
ClosestRank(value, median, ranks, closest_rank_dist, closest_rank) ==
    IF ranks = {} THEN closest_rank
    ELSE LET test_rank == CHOOSE r \in ranks : \A q \in ranks : r <= q
             abs_dist  == fabs(fsub(value, median[test_rank]))
         IN  IF flt(abs_dist, closest_rank_dist)
             THEN ClosestRank(value, median, ranks \ {test_rank}, abs_dist,
                              RankLabel(test_rank))
             ELSE ClosestRank(value, median, ranks \ {test_rank},
                              closest_rank_dist, closest_rank)

\* ---------------------------------------------------------------------
\* Outliers._median_outlier_file
\* ---------------------------------------------------------------------

\* v of lines 186 and 341 with every taxon of the rank, trusted or not
InferenceValuesAll(d, inference) == ValuesOf(d, DOMAIN d)

\* v = [dist for taxa, dist in d.iteritems() if taxa in taxa_for_dist_inference]
InferenceValues(d, inference) == ValuesOf(d, (DOMAIN d) \cap inference)

\* median_rel_dist of lines 184-187
MedianRelDist(rel_dists, inference) ==
    [rank \in DOMAIN rel_dists |-> np_median(InferenceValues(rel_dists[rank], inference))]

\* the arguments of one fout.write of lines 212-217
OutlierRow(rel_dists, median_rel_dist, rank, clade_label) ==
    LET dist  == rel_dists[rank][clade_label]
        delta == fsub(dist, median_rel_dist[rank])
    IN  [rank           |-> rank,
         taxon          |-> clade_label,
         dist           |-> dist,
         median         |-> median_rel_dist[rank],
         delta          |-> delta,
         closest_rank   |-> ClosestRank(dist, median_rel_dist, DOMAIN median_rel_dist,
                                        ClosestRankDist0, ""),
         classification |-> Classification(delta)]

\* The table written for rel_dists. closest_rank is assigned in every row as
\* soon as one rank has a median; when every median is nan it is never
\* assigned and the first fout.write of a row raises UnboundLocalError.
MedianOutlierFile(rel_dists, inference) ==
    LET median_rel_dist == MedianRelDist(rel_dists, inference)
        rows == { OutlierRow(rel_dists, median_rel_dist, x[1], x[2]) :
                    x \in { y \in (DOMAIN rel_dists) \X AllTaxa :
                              y[2] \in DOMAIN rel_dists[y[1]] } }
    IN  IF rows # {} /\ \A rank \in DOMAIN median_rel_dist : median_rel_dist[rank] = NaN
        THEN [median_rel_dist |-> median_rel_dist, rows |-> {},
              err |-> "UnboundLocalError"]
        ELSE [median_rel_dist |-> median_rel_dist, rows |-> rows, err |-> ""]

\* ---------------------------------------------------------------------
\* Outliers._median_summary_outlier_file; order is the iteration order of
\* the dict phylum_rel_dists
\* ---------------------------------------------------------------------

SummaryRanks(prd) == UNION {DOMAIN prd[p] : p \in DOMAIN prd}

SummaryTaxa(prd, rank) ==
    UNION {DOMAIN prd[p][rank] : p \in {q \in DOMAIN prd : rank \in DOMAIN prd[q]}}

\* median_for_phyla[rank]
MedianForPhyla(prd, inference, order, rank) ==
    LET ps == SelectSeq(order, LAMBDA p : rank \in DOMAIN prd[p])
    IN  [k \in 1..Len(ps) |-> np_median(InferenceValues(prd[ps[k]][rank], inference))]

\* medians_for_taxa[rank][taxon]
MediansForTaxa(prd, order, rank, taxon) ==
    LET ps == SelectSeq(order, LAMBDA p : rank \in DOMAIN prd[p]
                                          /\ taxon \in DOMAIN prd[p][rank])
    IN  [k \in 1..Len(ps) |-> prd[ps[k]][rank][taxon]]

\* dist_per_phyla[rank][taxon]
DistPerPhyla(prd, inference, order, rank, taxon) ==
    LET ps == SelectSeq(order, LAMBDA p : rank \in DOMAIN prd[p]
                                          /\ taxon \in DOMAIN prd[p][rank])
    IN  [k \in 1..Len(ps) |->
            fsub(prd[ps[k]][rank][taxon],
                 np_median(InferenceValues(prd[ps[k]][rank], inference)))]

\* np_median(m - centre), the deviations taken with their sign
MedianSignedDev(m, centre) == np_median([k \in 1..Len(m) |-> fsub(m[k], centre)])

\* np_median(np_abs(m - centre))
MedianAbsDev(m, centre) == np_median([k \in 1..Len(m) |-> fabs(fsub(m[k], centre))])

\* the arguments of one fout.write of lines 393-404
SummaryRow(prd, inference, order, median, mad, rank, clade_label) ==
    LET dists        == MediansForTaxa(prd, order, rank, clade_label)
        diffs        == DistPerPhyla(prd, inference, order, rank, clade_label)
        taxon_median == np_median(dists)
        delta        == fsub(taxon_median, median[rank])
    IN  [rank           |-> rank,
         taxon          |-> clade_label,
         taxonomy       |-> Join(gtdb_parent_ranks(clade_label), <<";">>),
         taxon_median   |-> taxon_median,
         taxon_mad      |-> MedianAbsDev(dists, taxon_median),
         median         |-> median[rank],
         mad            |-> mad[rank],
         delta          |-> delta,
         closest_rank   |-> ClosestRank(taxon_median, median, DOMAIN median,
                                        ClosestRankDist0, ""),
         classification |-> Classification(delta),
         mean_abs_dist  |-> np_mean([k \in 1..Len(diffs) |-> fabs(diffs[k])]),
         mean_dist      |-> np_mean(diffs),
         dists          |-> dists,
         diffs          |-> diffs]

MedianSummaryOutlierFile(prd, inference, order) ==
    LET ranks  == SummaryRanks(prd)
        median == [r \in ranks |-> np_median(MedianForPhyla(prd, inference, order, r))]
        mad    == [r \in ranks |->
                      MedianAbsDev(MedianForPhyla(prd, inference, order, r), median[r])]
        rows   == { SummaryRow(prd, inference, order, median, mad, x[1], x[2]) :
                      x \in { y \in ranks \X AllTaxa : y[2] \in SummaryTaxa(prd, y[1]) } }
    IN  IF rows # {} /\ \A r \in ranks : median[r] = NaN
        THEN [median |-> median, mad |-> mad, rows |-> {}, err |-> "UnboundLocalError"]
        ELSE [median |-> median, mad |-> mad, rows |-> rows, err |-> ""]

\* ---------------------------------------------------------------------
\* Outliers.run
\* ---------------------------------------------------------------------

\* for p in phyla[0:2]
MaxRootings == 2

LastRooting == IF Len(phyla) < MaxRootings THEN Len(phyla) ELSE MaxRootings

\* lines 494-497 alone: the outgroup leaves the table, the taxa below it stay
RemoveOutgroupPhylumOnly(rel_dists, p) ==
    [r \in DOMAIN rel_dists |->
        [t \in (DOMAIN rel_dists[r]) \ {p} |-> rel_dists[r][t]]]

\* lines 494-501: the outgroup and the taxa below it leave the table
RemoveOutgroup(rel_dists, p) ==
    [r \in DOMAIN rel_dists |->
        [t \in (DOMAIN rel_dists[r]) \ ({p} \cup TaxonomyChildren(p)) |-> rel_dists[r][t]]]

\* one iteration of 'for p in phyla[0:2]': the tree is rooted on p, its table
\* is computed and stored, and the median outlier table of the rooting is
\* written
RootOnPhylum ==
    /\ opc = "rooting"
    /\ rooting <= LastRooting
    /\ \E raw \in rel_dist_pool :
         LET p         == phyla[rooting]
             phylum    == Remove3(p, <<"p", "_", "_">>)
             rel_dists == RemoveOutgroup(raw, p)
             report    == MedianOutlierFile(rel_dists, taxa_for_dist_inference)
         IN  /\ phylum_rel_dists' = Put(phylum_rel_dists, phylum, rel_dists)
             /\ median_outlier' = Put(median_outlier, phylum, report)
             /\ oerr' = report.err
             /\ opc' = IF report.err # "" THEN "error" ELSE "rooting"
             /\ rooting' = IF report.err # "" THEN rooting ELSE rooting + 1
    /\ UNCHANGED <<taxa_for_dist_inference, phyla, rel_dist_pool, median_summary,
                   orun, prev_run, dvars, cvars>>

\* lines 513-519: the summary over the rootings. distribution_table is
\* assigned only inside the loop: without a rooting, line 515 raises
\* UnboundLocalError.
SummariseRootings ==
    /\ opc = "rooting"
    /\ rooting > LastRooting
    /\ IF LastRooting = 0
       THEN /\ oerr' = "UnboundLocalError"
            /\ opc' = "error"
            /\ UNCHANGED median_summary
       ELSE \E order \in Perms(DOMAIN phylum_rel_dists) :
              LET report == MedianSummaryOutlierFile(phylum_rel_dists,
                                                     taxa_for_dist_inference, order)
              IN  /\ median_summary' = report
                  /\ oerr' = report.err
                  /\ opc' = IF report.err # "" THEN "error" ELSE "done"
    /\ UNCHANGED <<taxa_for_dist_inference, phyla, rel_dist_pool, rooting,
                   phylum_rel_dists, median_outlier, orun, prev_run, dvars, cvars>>

\* Outliers.run is called again on a tree with the same taxa, the same
\* phyla and the same taxa for inference
RunOutliersAgain ==
    /\ opc = "done"
    /\ orun < MaxRuns
    /\ orun' = orun + 1
    /\ prev_run' = [phylum_rel_dists |-> phylum_rel_dists,
                    median_outlier   |-> median_outlier,
                    median_summary   |-> median_summary]
    /\ phylum_rel_dists' = EmptyDict
    /\ median_outlier' = EmptyDict
    /\ median_summary' = EmptyDict
    /\ rooting' = 1
    /\ opc' = "rooting"
    /\ oerr' = ""
    /\ UNCHANGED <<taxa_for_dist_inference, phyla, rel_dist_pool, dvars, cvars>>

\* ---------------------------------------------------------------------
\* The inputs of Outliers.run
\* ---------------------------------------------------------------------

\* the divergences a taxon can have under a rooting
DistChoices(t) ==
    CASE t = Taxon_pB -> {300, 500}
      [] t = Taxon_pC -> {500, 800}
      [] t = Taxon_cZ -> {300}
      [] t = Taxon_cW -> {300, 800}
      [] OTHER -> {500}

RankTables(taxa) == { d \in [taxa -> {300, 500, 800}] : \A t \in taxa : d[t] \in DistChoices(t) }

\* tables with every taxon of the tree
AllTables ==
    { (PhylumRank :> x[1]) @@ (ClassRank :> x[2]) :
        x \in RankTables(PhylumTaxa) \X RankTables(ClassTaxa) }

\* the longest list of phyla found in the tree
MaxPhyla == 3

\* every phylum labels one node of the tree
PhylaLists ==
    UNION { { q \in [1..n -> PhylumTaxa] : \A a, b \in 1..n : a # b => q[a] # q[b] } :
              n \in 0..MaxPhyla }

DecorateIdle ==
    /\ tree = <<>>
    /\ input_tree = <<>>
    /\ min_support = 0
    /\ only_named_clades = FALSE
    /\ min_length = 0
    /\ thresholds = EmptyDict
    /\ correct = EmptyDict
    /\ incorrect = EmptyDict
    /\ pc = "idle"
    /\ pos = 1
    /\ rank_pos = FirstSummaryRank
    /\ err = ""
    /\ log = <<>>
    /\ output_tree = <<>>
    /\ run = 1
    /\ cls_rel_dist = 0
    /\ cls_result = Unset

InitOutliers ==
    /\ taxa_for_dist_inference \in SUBSET AllTaxa
    /\ phyla \in PhylaLists
    /\ rel_dist_pool = AllTables
    /\ rooting = 1
    /\ phylum_rel_dists = EmptyDict
    /\ median_outlier = EmptyDict
    /\ median_summary = EmptyDict
    /\ opc = "rooting"
    /\ oerr = ""
    /\ orun = 1
    /\ prev_run = EmptyDict
    /\ DecorateIdle

NextOutliers == RootOnPhylum \/ SummariseRootings

SpecOutliers == InitOutliers /\ [][NextOutliers]_vars

\* two runs over trees that differ in the divergence of p__C only
TwoRunTables == { t \in AllTables : t[PhylumRank][Taxon_pB] = 500 }

InitTwoRuns ==
    /\ taxa_for_dist_inference \in SUBSET AllTaxa
    /\ phyla = <<Taxon_pA, Taxon_pB, Taxon_pC>>
    /\ rel_dist_pool = TwoRunTables
    /\ rooting = 1
    /\ phylum_rel_dists = EmptyDict
    /\ median_outlier = EmptyDict
    /\ median_summary = EmptyDict
    /\ opc = "rooting"
    /\ oerr = ""
    /\ orun = 1
    /\ prev_run = EmptyDict
    /\ DecorateIdle

NextTwoRuns == RootOnPhylum \/ SummariseRootings \/ RunOutliersAgain

SpecTwoRuns == InitTwoRuns /\ [][NextTwoRuns]_vars

\* =====================================================================
\* Claims about Decorate.run
\* =====================================================================

\* the ranks whose interval, as the specification states them, holds x
RanksHolding(th, x) ==
    { r \in {rank_prefixes[k] : k \in 2..7} \cup {highly_basal_designator} :
        \/ r = rank_prefixes[7] /\ x > th["g"]
        \/ r = highly_basal_designator /\ x <= th["d"]
        \/ \E k \in 1..5 :
              /\ r = rank_prefixes[k + 1]
              /\ th[rank_designators[k]] < x
              /\ x <= th[rank_designators[k + 1]] }

\* C1: for thresholds d..g that increase in rank order, every relative
\* divergence gets exactly one rank without an error: S__ above the genus
\* threshold, X__ at or below the domain threshold, else the child rank of the
\* only interval (parent, child] that holds it.
C1_ExactlyOneRank ==
    pc = "classified" =>
        /\ cls_result.err = ""
        /\ RanksHolding(thresholds, cls_rel_dist) = {cls_result.rank}

\* a divergence equal to the phylum threshold has been classified as phylum
C1_Witness ==
    /\ pc = "classified"
    /\ cls_rel_dist = thresholds["p"]
    /\ cls_result.rank = rank_prefixes[2]

\* the conditions of the claim under which a node receives a prediction
Eligible(n) ==
    LET support == parse_label(n.name).support
        taxon   == parse_label(n.name).taxon_name
    IN  /\ ~n.tip
        /\ ~(n.length < min_length)
        /\ (support = NoneNum \/ ~(support < min_support))
        /\ (~only_named_clades \/ (taxon # NoneStr /\ taxon # <<>>))

\* C2: of the nodes the traversal has passed, exactly the eligible ones
\* (internal, long enough, support absent or not below min_support, labelled
\* when only_named_clades is set) have received a prediction suffix.
C2_DecoratedIffEligible ==
    \A k \in 1..Len(tree) :
        k < pos => ((tree[k].name # input_tree[k].name) <=> Eligible(input_tree[k]))

IsPrefix(s, t) == Len(s) <= Len(t) /\ SubSeq(t, 1, Len(s)) = s

Count(s, c) == Cardinality({k \in 1..Len(s) : s[k] = c})

\* sfx reads '|<RANK_PREFIX>[<i>.<ff>]' where <i>.<ff> is the hundredth
\* nearest to rel_dist (in thousandths)
IsPredictionSuffix(sfx, rel_dist) ==
    LET open  == IndexOf(sfx, "[")
        dot   == IndexOf(sfx, ".")
        close == Len(sfx)
    IN  /\ Len(sfx) >= 9
        /\ Count(sfx, "|") = 1 /\ sfx[1] = "|"
        /\ Count(sfx, "[") = 1 /\ Count(sfx, "]") = 1 /\ Count(sfx, ".") = 1
        /\ sfx[close] = "]"
        /\ open > 2 /\ dot > open + 1 /\ close = dot + 3
        /\ SubSeq(sfx, 2, open - 1) \in
               {rank_prefixes[k] : k \in 1..8} \cup {highly_basal_designator}
        /\ \A k \in ((open + 1)..(dot - 1)) \cup {dot + 1, dot + 2} : IsDigit(sfx[k])
        /\ LET hundredths == 100 * StrNat(SubSeq(sfx, open + 1, dot - 1))
                                 + StrNat(SubSeq(sfx, dot + 1, dot + 2))
           IN  10 * hundredths - 5 <= rel_dist /\ rel_dist <= 10 * hundredths + 5

\* C3: a run changes a label only by appending. Tips and the internal nodes
\* it has skipped keep their label; any other label is either still the old
\* one or the old one followed by exactly one suffix '|<RANK_PREFIX>[<rel_dist
\* to two decimals>]'. Only the labels change.
C3_AppendOnly ==
    /\ Len(tree) = Len(input_tree)
    /\ \A k \in 1..Len(tree) :
        LET old == input_tree[k].name
            new == tree[k].name
        IN  /\ tree[k] = [input_tree[k] EXCEPT !.name = new]
            /\ (input_tree[k].tip => new = old)
            /\ (Skipped(input_tree[k], min_support, only_named_clades, min_length)
                    => new = old)
            /\ (k > pos => new = old)
            /\ (new # old =>
                    /\ old # NoneStr
                    /\ IsPrefix(old, new)
                    /\ IsPredictionSuffix(SubSeq(new, Len(old) + 1, Len(new)),
                                          tree[k].rel_dist))

\* a node of divergence 0.846 has been decorated, after a skipped internal
\* node kept its label, in a tree that ends in a tip
C3_Witness ==
    /\ Len(tree) = 3
    /\ pos = 3
    /\ ~tree[1].tip /\ tree[1].length < min_length /\ tree[1].name = input_tree[1].name
    /\ tree[2].rel_dist = 846
    /\ tree[2].name = input_tree[2].name
                        \o <<"|", "G", "_", "_", "[", "0", ".", "8", "5", "]">>
    /\ tree[3].tip

\* the table lacks a key from d to g, or its values decrease somewhere
BadThresholds(th) ==
    \/ ~(RequiredKeys \subseteq DOMAIN th)
    \/ \E a, b \in 1..6 :
          /\ a < b
          /\ rank_designators[a] \in DOMAIN th /\ rank_designators[b] \in DOMAIN th
          /\ th[rank_designators[a]] > th[rank_designators[b]]

\* the prediction of node k of the tree handed to the run
Predicted(k) == PredictRank(thresholds, input_tree[k].rel_dist)

\* the passed nodes that the claim has counted under key named_rank
Tallied(named_rank, wantCorrect) ==
    { k \in 1..Len(tree) :
        /\ k < pos
        /\ tree[k].name # input_tree[k].name
        /\ Predicted(k).rank # highly_basal_designator
        /\ parse_label(input_tree[k].name).taxon_name # NoneStr
        /\ NamedRank(parse_label(input_tree[k].name).taxon_name) = named_rank
        /\ (named_rank = lower(Predicted(k).rank)) = wantCorrect }

\* C4: the counters count exactly the decorated nodes with a real prediction
\* and a lineage label, under the rank prefix of the last lineage segment; an
\* eligible node without a taxonomic label changes no counter and does not
\* stop the traversal.
C4_TallyAndNoStop ==
    /\ \A key \in (DOMAIN correct) \cup (DOMAIN incorrect)
                    \cup {lower(rank_prefixes[k]) : k \in 2..7} :
          /\ Get(correct, key) = Cardinality(Tallied(key, TRUE))
          /\ Get(incorrect, key) = Cardinality(Tallied(key, FALSE))
    /\ ~( /\ pc = "error"
          /\ pos <= Len(tree)
          /\ ~Skipped(input_tree[pos], min_support, only_named_clades, min_length)
          /\ ~BadThresholds(thresholds)
          /\ parse_label(input_tree[pos].name).taxon_name = NoneStr )

\* C5: with a threshold table that lacks a required key or is not monotonic
\* the run fails whatever the tree holds: no node is classified and the run
\* never gets past the traversal.
C5_BadThresholdsFail ==
    BadThresholds(thresholds) =>
        /\ tree = input_tree
        /\ pc \in {"traverse", "error"}

\* C6: the accuracy summary never divides by zero (stated for valid threshold
\* tables, where nothing else can end the run).
C6_NoZeroDivision == ~BadThresholds(thresholds) => err # "ZeroDivisionError"

\* C7: a second run over a decorated tree, with the same valid thresholds and
\* parameters, leaves every label as the first run left it.
C7_SecondRunChangesNothing ==
    (run = 2 /\ ~BadThresholds(thresholds)) => tree = input_tree

\* =====================================================================
\* Claims about Outliers
\* =====================================================================

\* the rows of the median outlier tables written so far, with their rooting
OutlierRows ==
    { [phylum |-> p, row |-> r] :
        p \in DOMAIN median_outlier, r \in UNION {median_outlier[q].rows : q \in DOMAIN median_outlier} }
    \cap { x \in [phylum : DOMAIN median_outlier,
                  row : UNION {median_outlier[q].rows : q \in DOMAIN median_outlier}] :
             x.row \in median_outlier[x.phylum].rows }

\* m is the median of the divergences d[t], t in taxa: half of the values at
\* most lie below it and half at most above it; it is one of the values when
\* their number is odd, and the mean of two of them, one on each side, when
\* it is even
IsMedianOf(m, d, taxa) ==
    LET n == Cardinality(taxa)
    IN  /\ 2 * Cardinality({t \in taxa : d[t] < m}) <= n
        /\ 2 * Cardinality({t \in taxa : d[t] > m}) <= n
        /\ (n % 2 = 1 => \E t \in taxa : d[t] = m)
        /\ (n % 2 = 0 => \E a, b \in taxa :
                            a # b /\ d[a] <= m /\ m <= d[b] /\ d[a] + d[b] = 2 * m)

\* the class the claim gives a delta
ClassOfDelta(delta) ==
    IF delta < 0 - 200 THEN "very overclassified"
    ELSE IF delta < 0 - 100 THEN "overclassified"
    ELSE IF delta > 200 THEN "very underclassified"
    ELSE IF delta > 100 THEN "underclassified"
    ELSE "OK"

\* C8: in a single-rooting report the median of a rank is the median over
\* its taxa in taxa_for_dist_inference, delta is distance - median, and the
\* class follows from delta alone: < -0.2 very overclassified, else < -0.1
\* overclassified, else > 0.2 very underclassified, else > 0.1
\* underclassified, else OK; -0.25, -0.15, 0, 0.15, 0.25 give the five
\* classes in that order.
C8_ClassByDelta ==
    /\ \A x \in OutlierRows :
         LET table    == phylum_rel_dists[x.phylum]
             r        == x.row
             trusted  == (DOMAIN table[r.rank]) \cap taxa_for_dist_inference
         IN  /\ r.dist = table[r.rank][r.taxon]
             /\ IF trusted = {}
                THEN r.median = NaN /\ r.classification = "OK"
                ELSE /\ IsMedianOf(r.median, table[r.rank], trusted)
                     /\ r.delta = r.dist - r.median
                     /\ r.classification = ClassOfDelta(r.delta)
    /\ <<Classification(0 - 250), Classification(0 - 150), Classification(0),
         Classification(150), Classification(250)>>
         = <<"very overclassified", "overclassified", "OK", "underclassified",
             "very underclassified">>

\* the reports of two rootings hold rows with the deltas -0.25, -0.15, 0,
\* 0.15 and 0.25, one of each class
C8_Witness ==
    /\ \E x \in OutlierRows : x.row.delta = 0 - 250 /\ x.row.classification = "very overclassified"
    /\ \E x \in OutlierRows : x.row.delta = 0 - 150 /\ x.row.classification = "overclassified"
    /\ \E x \in OutlierRows : x.row.delta = 0 /\ x.row.classification = "OK"
    /\ \E x \in OutlierRows : x.row.delta = 150 /\ x.row.classification = "underclassified"
    /\ \E x \in OutlierRows : x.row.delta = 250 /\ x.row.classification = "very underclassified"

\* the rows of the summary table of the run
SummaryRows == IF "rows" \in DOMAIN median_summary THEN median_summary.rows ELSE {}

\* C9 as amended: a taxon whose delta is exactly -0.2 is classified
\* 'overclassified', in the single-rooting report and in the consensus
\* report alike (the test for 'very overclassified' is delta < -0.2).
C9_BoundaryIsOverclassified ==
    /\ \A x \in OutlierRows :
         x.row.delta = 0 - 200 => x.row.classification = "overclassified"
    /\ \A r \in SummaryRows :
         r.delta = 0 - 200 => r.classification = "overclassified"

\* both reports of a run hold a row whose delta is -0.2
C9_Witness ==
    /\ \E x \in OutlierRows : x.row.delta = 0 - 200
    /\ \E r \in SummaryRows : r.delta = 0 - 200

\* C9 as stated: a taxon whose delta is exactly -0.2 is classified 'very
\* overclassified' in both reports.
C9_BoundaryIsVeryOverclassified ==
    /\ \A x \in OutlierRows :
         x.row.delta = 0 - 200 => x.row.classification = "very overclassified"
    /\ \A r \in SummaryRows :
         r.delta = 0 - 200 => r.classification = "very overclassified"

\* the two tables hold the same taxa and agree on every taxon for inference
AgreeOnInference(t1, t2) ==
    /\ DOMAIN t1 = DOMAIN t2
    /\ \A r \in DOMAIN t1 :
          /\ DOMAIN t1[r] = DOMAIN t2[r]
          /\ \A t \in (DOMAIN t1[r]) \cap taxa_for_dist_inference : t1[r][t] = t2[r][t]

\* the phyla both runs have rooted on
RootedInBoth ==
    IF orun = 1 THEN {}
    ELSE (DOMAIN median_outlier) \cap (DOMAIN prev_run.median_outlier)

\* both runs are finished and their tables agree on the taxa for inference
SummariesComparable ==
    /\ orun = 2
    /\ opc = "done"
    /\ DOMAIN phylum_rel_dists = DOMAIN prev_run.phylum_rel_dists
    /\ \A p \in DOMAIN phylum_rel_dists :
          AgreeOnInference(prev_run.phylum_rel_dists[p], phylum_rel_dists[p])

\* C10: of two runs whose tables hold the same taxa and agree on the taxa
\* for inference, the medians of every rank are the same, and every taxon
\* with the same divergence in both gets the same delta and the same class,
\* in the report of each rooting and in the summary.
C10_UntrustedTaxaDoNotBias ==
    /\ \A p \in RootedInBoth :
         AgreeOnInference(prev_run.phylum_rel_dists[p], phylum_rel_dists[p]) =>
            /\ prev_run.median_outlier[p].median_rel_dist = median_outlier[p].median_rel_dist
            /\ \A r1 \in prev_run.median_outlier[p].rows, r2 \in median_outlier[p].rows :
                  (r1.rank = r2.rank /\ r1.taxon = r2.taxon /\ r1.dist = r2.dist) =>
                     (r1.delta = r2.delta /\ r1.classification = r2.classification)
    /\ SummariesComparable =>
            /\ prev_run.median_summary.median = median_summary.median
            /\ \A r1 \in prev_run.median_summary.rows, r2 \in median_summary.rows :
                  ( /\ r1.rank = r2.rank /\ r1.taxon = r2.taxon
                    /\ \A p \in DOMAIN phylum_rel_dists :
                          r1.taxon \in DOMAIN phylum_rel_dists[p][r1.rank] =>
                             prev_run.phylum_rel_dists[p][r1.rank][r1.taxon]
                                = phylum_rel_dists[p][r1.rank][r1.taxon] ) =>
                     (r1.delta = r2.delta /\ r1.classification = r2.classification)

\* two finished runs rooted on A whose tables differ in the divergence of
\* p__C, which is not used for inference, while p__B is: p__B is judged
\* against the same median in both, in the report and in the summary
C10_Witness ==
    /\ SummariesComparable
    /\ Taxon_pB \in taxa_for_dist_inference
    /\ Taxon_pC \notin taxa_for_dist_inference
    /\ prev_run.phylum_rel_dists[<<"A">>][PhylumRank][Taxon_pC]
          # phylum_rel_dists[<<"A">>][PhylumRank][Taxon_pC]
    /\ \E r \in median_outlier[<<"A">>].rows : r.taxon = Taxon_pB /\ r.delta = 0
    /\ \E r \in median_summary.rows : r.taxon = Taxon_pB /\ r.median # NaN

\* the (rank, taxon) pairs of a relative-distance table
TaxaOfTable(table) ==
    { x \in (DOMAIN table) \X AllTaxa : x[2] \in DOMAIN table[x[1]] }

\* C11: whatever taxa_for_dist_inference is, the report of a rooting holds
\* exactly one row, with a classification, for every taxon of every rank of
\* the rooting's table, and no other row.
C11_EveryTaxonReported ==
    \A p \in DOMAIN median_outlier :
       /\ { <<r.rank, r.taxon>> : r \in median_outlier[p].rows }
             = TaxaOfTable(phylum_rel_dists[p])
       /\ \A r1, r2 \in median_outlier[p].rows :
             (r1.rank = r2.rank /\ r1.taxon = r2.taxon) => r1 = r2

\* some rank of the table has taxa, none of them in taxa_for_dist_inference
HasEmptyDistribution(table) ==
    \E rank \in DOMAIN table :
       /\ DOMAIN table[rank] # {}
       /\ (DOMAIN table[rank]) \cap taxa_for_dist_inference = {}

\* C12: when a rank of a table has no taxon in taxa_for_dist_inference, the
\* report over that table stops with an error and holds no row; this holds
\* for the report of a rooting and for the summary over the rootings.
C12_EmptyDistributionAborts ==
    /\ \A p \in DOMAIN median_outlier :
          HasEmptyDistribution(phylum_rel_dists[p]) =>
             (median_outlier[p].err # "" /\ median_outlier[p].rows = {})
    /\ ("rows" \in DOMAIN median_summary
          /\ \E p \in DOMAIN phylum_rel_dists : HasEmptyDistribution(phylum_rel_dists[p])) =>
             (median_summary.err # "" /\ median_summary.rows = {})

\* the processed rootings whose table holds the taxon at the rank
RootingsHolding(rank, taxon) ==
    { p \in DOMAIN phylum_rel_dists :
        rank \in DOMAIN phylum_rel_dists[p] /\ taxon \in DOMAIN phylum_rel_dists[p][rank] }

\* the list holds the divergence of the taxon in each rooting of ps, once
IsListOver(list, ps, rank, taxon) ==
    \E order \in Perms(ps) :
       list = [k \in 1..Len(order) |-> phylum_rel_dists[order[k]][rank][taxon]]

\* C13: in the summary over the rootings the value list of a taxon holds one
\* value for each processed rooting whose table holds the taxon, and none
\* for a rooting whose outgroup is the taxon or its phylum; the list of
\* differences has the same length; a taxon with one value has that value
\* as its median and a MAD of 0.
C13_OneValuePerRooting ==
    /\ \A p \in DOMAIN phylum_rel_dists : \A rank \in DOMAIN phylum_rel_dists[p] :
          LET outgroup == <<"p", "_", "_">> \o p
          IN  (DOMAIN phylum_rel_dists[p][rank])
                 \cap ({outgroup} \cup TaxonomyChildren(outgroup)) = {}
    /\ \A r \in SummaryRows :
          /\ IsListOver(r.dists, RootingsHolding(r.rank, r.taxon), r.rank, r.taxon)
          /\ Len(r.diffs) = Len(r.dists)
          /\ Len(r.dists) = 1 => (r.taxon_median = r.dists[1] /\ r.taxon_mad = 0)

\* a summary over two rootings in which a phylum has a value from both, and
\* a class below one of the outgroups has one value only
C13_Witness ==
    /\ opc = "done"
    /\ Cardinality(DOMAIN phylum_rel_dists) = 2
    /\ \E r \in SummaryRows : r.rank = PhylumRank /\ Len(r.dists) = 2
    /\ \E r \in SummaryRows :
          /\ r.rank = ClassRank
          /\ Len(r.dists) = 1
          /\ \E p \in DOMAIN phylum_rel_dists :
                r.taxon \in TaxonomyChildren(<<"p", "_", "_">> \o p)
          /\ r.taxon_mad = 0

\* the median of the values f[x], x in S, by the ranks of the values; nan
\* when S is empty or a value is nan
MedianOver(f, S) ==
    IF S = {} \/ \E x \in S : f[x] = NaN THEN NaN
    ELSE CHOOSE m \in { (f[a] + f[b]) \div 2 : a, b \in S } : IsMedianOf(m, f, S)

\* the median of a rank under the rooting p, over the taxa for inference
RootingMedian(p, rank) ==
    MedianOver(phylum_rel_dists[p][rank],
               (DOMAIN phylum_rel_dists[p][rank]) \cap taxa_for_dist_inference)

\* the reference of a rank: the median of the medians of the rootings
RankReference(rank) ==
    MedianOver([p \in DOMAIN phylum_rel_dists |-> RootingMedian(p, rank)],
               DOMAIN phylum_rel_dists)

\* the median absolute deviation of the medians of the rootings
RankMAD(rank) ==
    MedianOver([p \in DOMAIN phylum_rel_dists |->
                   fabs(fsub(RootingMedian(p, rank), RankReference(rank)))],
               DOMAIN phylum_rel_dists)

\* C14: in the summary the median of a rank is the median over the rootings
\* of each rooting's median over the rank's taxa for inference, the MAD of
\* the rank is the median absolute deviation of those medians, and a taxon
\* is classified by the cascade of C8 on delta = (median of the taxon's
\* values over the rootings) - (median of the rank).
C14_ConsensusReference ==
    \A r \in SummaryRows :
       LET ps == RootingsHolding(r.rank, r.taxon)
       IN  /\ r.median = RankReference(r.rank)
           /\ r.mad = RankMAD(r.rank)
           /\ r.taxon_median =
                 MedianOver([p \in ps |-> phylum_rel_dists[p][r.rank][r.taxon]], ps)
           /\ IF r.median = NaN
              THEN r.classification = "OK"
              ELSE /\ r.delta = r.taxon_median - r.median
                   /\ r.classification = ClassOfDelta(r.delta)

\* a summary over two rootings whose medians of the phylum rank differ, so
\* that the MAD of the rank is not 0, with a taxon that is not 'OK'
C14_Witness ==
    /\ opc = "done"
    /\ Cardinality(DOMAIN phylum_rel_dists) = 2
    /\ \E r \in SummaryRows :
          /\ r.rank = PhylumRank
          /\ r.mad > 0
          /\ Len(r.dists) = 2
          /\ r.classification # "OK"

\* =====================================================================
\* The writing of the tree by Decorate.run
\* =====================================================================

\* C15: a run writes the tree at most once; when it has written it, every
\* node has been visited, the six lines of the summary, phylum to species,
\* have been logged, no exception was raised and the run is over; a
\* finished run has written the tree as it then is; a run that failed in
\* the traversal or in the summary has written nothing.
C15_WriteOnceAtTheEnd ==
    /\ Len(output_tree) <= 1
    /\ output_tree # <<>> =>
          /\ pc = "done"
          /\ err = ""
          /\ pos = Len(tree) + 1
          /\ Len(log) = LastSummaryRank - FirstSummaryRank + 1
          /\ \A k \in 1..Len(log) : log[k][1] = rank_prefixes[FirstSummaryRank + k - 1]
          /\ output_tree[1] = tree
    /\ pc = "done" => Len(output_tree) = 1
    /\ pc = "error" => output_tree = <<>>

\* a first run with good thresholds that failed after it had changed the
\* label of a node, and wrote nothing
C15_FailedAfterDecorating ==
    /\ pc = "error"
    /\ run = 1
    /\ ~BadThresholds(thresholds)
    /\ \E k \in 1..Len(tree) : tree[k].name # input_tree[k].name
    /\ output_tree = <<>>

====
